---- MODULE Spec2Model ----
(***************************************************************************)
(* A model of haptik, a client for the HAProxy stats socket: the command   *)
(* encoders (commands.rs), the Connection methods (connection.rs), the     *)
(* response decoders (parsers.rs) and the record parsers (responses.rs,    *)
(* models.rs).                                                             *)
(*                                                                         *)
(* A Rust String is modelled as the sequence of its UTF-8 bytes.  An ASCII *)
(* byte is the one-character string of its character; the two bytes of the *)
(* character U+00E9 are the strings "C3" and "A9".  Numbers that do not    *)
(* fit TLC's 32-bit integers (u32, i32, u64) are kept as canonical         *)
(* numerals: the sequence of their digits without leading zeros.           *)
(***************************************************************************)
EXTENDS Integers, Sequences, FiniteSets, TLC

VARIABLES
    handle,     \* "live": the Connection value is owned by the caller; "moved": a method took it
    pc,         \* position of the running method: idle, cmd_written, reading, done
    call,       \* the method called and its arguments
    written,    \* the bytes written to the socket of this connection
    events,     \* what happened on the stream, in order: "cmd", "end", "read" (the first read)
    ncmds,      \* how many command texts were written on this connection
    response,   \* what the remote process sends back: [data, tail]
    stream,     \* the part of response.data the BufReader has not consumed yet
    started,    \* acl_data: the Peekable has looked at its first item
    acc,        \* the records collected so far by a multi-line decoder
    nparsed,    \* how many times a record parser (from_str) was called by the decoder
    readFailed, \* some read of the stream returned an io::Error during the call
    oddReads,   \* the decoder has called read_line an odd number of times
    result      \* what the method returned

vars == <<handle, pc, call, written, events, ncmds, response, stream,
          started, acc, nparsed, readFailed, oddReads, result>>

(***************************************************************************)
(* Result<T, Error>, and the panic a slice out of a char boundary raises.  *)
(***************************************************************************)
Ok(v) == [kind |-> "Ok", val |-> v]

Err(e) == [kind |-> "Err", err |-> e]

Panic == [kind |-> "Panic"]

Pending == [kind |-> "Pending"]

ErrorKinds == {"ParseFailure", "UnknownId", "MissingParameters", "IoError"}

(***************************************************************************)
(* Bytes and strings.                                                      *)
(***************************************************************************)
LF == "\n"

CR == "\r"

\* The marker of a read of the underlying stream that fails with an io::Error.
EIO == "<EIO>"

IsContinuationByte(b) == b \in {"A9"}

IsLeadByte(b) == b \in {"C3"}

\* str::is_char_boundary(i), i counted from 0.
IsCharBoundary(s, i) ==
    \/ i = 0
    \/ i = Len(s)
    \/ i > 0 /\ i < Len(s) /\ ~IsContinuationByte(s[i + 1])

\* std::str::from_utf8 succeeds.
ValidUtf8(s) ==
    \A i \in 1..Len(s) :
        /\ IsLeadByte(s[i]) => (i < Len(s) /\ IsContinuationByte(s[i + 1]))
        /\ IsContinuationByte(s[i]) => (i > 1 /\ IsLeadByte(s[i - 1]))

\* &s[a..b]: the bytes a..b-1 (from 0), or a panic when a or b is no char boundary.
Slice(s, a, b) ==
    IF a <= b /\ b <= Len(s) /\ IsCharBoundary(s, a) /\ IsCharBoundary(s, b)
    THEN Ok(SubSeq(s, a + 1, b))
    ELSE Panic

StartsWith(s, p) == Len(s) >= Len(p) /\ SubSeq(s, 1, Len(p)) = p

\* The position of the first d in s, 0 when there is none.
IndexOf(s, d) ==
    IF \E i \in 1..Len(s) : s[i] = d
    THEN CHOOSE i \in 1..Len(s) : s[i] = d /\ \A j \in 1..(i - 1) : s[j] # d
    ELSE 0

\* The position of the last d in s, 0 when there is none.
LastIndexOf(s, d) ==
    IF \E i \in 1..Len(s) : s[i] = d
    THEN CHOOSE i \in 1..Len(s) : s[i] = d /\ \A j \in (i + 1)..Len(s) : s[j] # d
    ELSE 0

\* str::splitn(n, d) collected: at most n pieces, the last one holding the rest.
RECURSIVE SplitN(_, _, _)
SplitN(s, n, d) ==
    IF n <= 1 \/ IndexOf(s, d) = 0
    THEN <<s>>
    ELSE <<SubSeq(s, 1, IndexOf(s, d) - 1)>>
         \o SplitN(SubSeq(s, IndexOf(s, d) + 1, Len(s)), n - 1, d)

\* str::rsplitn(n, d) collected: the pieces from the right, the last one holding the rest.
RECURSIVE RSplitN(_, _, _)
RSplitN(s, n, d) ==
    IF n <= 1 \/ LastIndexOf(s, d) = 0
    THEN <<s>>
    ELSE <<SubSeq(s, LastIndexOf(s, d) + 1, Len(s))>>
         \o RSplitN(SubSeq(s, 1, LastIndexOf(s, d) - 1), n - 1, d)

\* str::split(d) collected.
RECURSIVE Split(_, _)
Split(s, d) ==
    IF IndexOf(s, d) = 0
    THEN <<s>>
    ELSE <<SubSeq(s, 1, IndexOf(s, d) - 1)>> \o Split(SubSeq(s, IndexOf(s, d) + 1, Len(s)), d)

(***************************************************************************)
(* The integer parsers of the standard library.                            *)
(***************************************************************************)
DecDigits == {"0", "1", "2", "3", "4", "5", "6", "7", "8", "9"}

HexDigits == DecDigits \cup {"a", "b", "c", "d", "e", "f", "A", "B", "C", "D", "E", "F"}

DigitVal(c) ==
    CASE c = "0" -> 0 [] c = "1" -> 1 [] c = "2" -> 2 [] c = "3" -> 3 [] c = "4" -> 4
      [] c = "5" -> 5 [] c = "6" -> 6 [] c = "7" -> 7 [] c = "8" -> 8 [] c = "9" -> 9
      [] c \in {"a", "A"} -> 10 [] c \in {"b", "B"} -> 11 [] c \in {"c", "C"} -> 12
      [] c \in {"d", "D"} -> 13 [] c \in {"e", "E"} -> 14 [] c \in {"f", "F"} -> 15

LowerHex(c) ==
    CASE c = "A" -> "a" [] c = "B" -> "b" [] c = "C" -> "c" [] c = "D" -> "d"
      [] c = "E" -> "e" [] c = "F" -> "f" [] OTHER -> c

\* The numeral of the number the digits ds denote: no leading zero.
RECURSIVE StripZeros(_)
StripZeros(ds) ==
    IF Len(ds) > 1 /\ Head(ds) = "0" THEN StripZeros(Tail(ds)) ELSE ds

\* a <= b for two numerals.
NumLE(a, b) ==
    \/ Len(a) < Len(b)
    \/ /\ Len(a) = Len(b)
       /\ \/ a = b
          \/ \E i \in 1..Len(a) :
                /\ SubSeq(a, 1, i - 1) = SubSeq(b, 1, i - 1)
                /\ DigitVal(a[i]) < DigitVal(b[i])

U32Max == <<"4", "2", "9", "4", "9", "6", "7", "2", "9", "5">>

I32Max == <<"2", "1", "4", "7", "4", "8", "3", "6", "4", "7">>

I32MinMagnitude == <<"2", "1", "4", "7", "4", "8", "3", "6", "4", "8">>

\* u32::from_str: an optional '+', then decimal digits, no overflow.
U32FromStr(src) ==
    IF src = <<>> \/ src = <<"+">> \/ src = <<"-">>
    THEN Err("ParseIntError")
    ELSE LET ds == IF Head(src) = "+" THEN Tail(src) ELSE src
         IN  IF (\A i \in 1..Len(ds) : ds[i] \in DecDigits) /\ NumLE(StripZeros(ds), U32Max)
             THEN Ok(StripZeros(ds))
             ELSE Err("ParseIntError")

\* i32::from_str: an optional '+' or '-', then decimal digits, no overflow.
I32FromStr(src) ==
    IF src = <<>> \/ src = <<"+">> \/ src = <<"-">>
    THEN Err("ParseIntError")
    ELSE LET neg == Head(src) = "-"
             ds  == IF Head(src) \in {"+", "-"} THEN Tail(src) ELSE src
             mag == StripZeros(ds)
         IN  IF ~(\A i \in 1..Len(ds) : ds[i] \in DecDigits)
             THEN Err("ParseIntError")
             ELSE IF neg
                  THEN IF NumLE(mag, I32MinMagnitude)
                       THEN Ok(IF mag = <<"0">> THEN mag ELSE <<"-">> \o mag)
                       ELSE Err("ParseIntError")
                  ELSE IF NumLE(mag, I32Max) THEN Ok(mag) ELSE Err("ParseIntError")

\* The most hexadecimal digits a u64 has.
U64HexDigits == 16

\* u64::from_str_radix(src, 16): an optional '+', then hexadecimal digits, no overflow.
U64FromStrRadix16(src) ==
    IF src = <<>> \/ src = <<"+">> \/ src = <<"-">>
    THEN Err("ParseIntError")
    ELSE LET ds == IF Head(src) = "+" THEN Tail(src) ELSE src
         IN  IF (\A i \in 1..Len(ds) : ds[i] \in HexDigits)
                /\ Len(StripZeros(ds)) <= U64HexDigits
             THEN Ok([i \in 1..Len(StripZeros(ds)) |-> LowerHex(StripZeros(ds)[i])])
             ELSE Err("ParseIntError")

(***************************************************************************)
(* The texts the parsers compare with.                                     *)
(***************************************************************************)
SP == " "

StrAdmin == <<"a", "d", "m", "i", "n">>

StrOperator == <<"o", "p", "e", "r", "a", "t", "o", "r">>

StrUser == <<"u", "s", "e", "r">>

StrAll == <<"a", "l", "l">>

StrUnknown == <<"u", "n", "k", "n", "o", "w", "n">>

StrUnix == <<"u", "n", "i", "x">>

StrIpv4 == <<"i", "p", "v", "4">>

StrIpv6 == <<"i", "p", "v", "6">>

StrSockpair == <<"s", "o", "c", "k", "p", "a", "i", "r">>

StrAbns == <<"a", "b", "n", "s">>

\* "Unknown ACL identifier"
StrUnknownAclId ==
    <<"U", "n", "k", "n", "o", "w", "n", " ", "A", "C", "L", " ">>
    \o <<"i", "d", "e", "n", "t", "i", "f", "i", "e", "r">>

\* "'add acl' expects two parameters"
StrAddAclExpects ==
    <<"'", "a", "d", "d", " ", "a", "c", "l", "'", " ", "e", "x", "p", "e", "c", "t", "s">>
    \o <<" ", "t", "w", "o", " ", "p", "a", "r", "a", "m", "e", "t", "e", "r", "s">>

(***************************************************************************)
(* responses.rs: Acl, Level, CliSocketAddr, CliSocketProcesses, CliSocket. *)
(***************************************************************************)
None == [some |-> FALSE]

Some(v) == [some |-> TRUE, val |-> v]

\* The reference field of an Acl line: "()" is None, "(name)" is cut by byte index.
AclReference(reference) ==
    IF reference = <<"(", ")">>
    THEN Ok(None)
    ELSE IF Len(reference) < 3
         THEN Err("ParseFailure")
         ELSE LET cut == Slice(reference, 1, Len(reference) - 1)
              IN  IF cut.kind = "Panic" THEN Panic ELSE Ok(Some(cut.val))

\* impl FromStr for Acl.
AclFromStr(s) ==
    LET parts == SplitN(s, 3, SP)
    IN  IF Len(parts) # 3
        THEN Err("ParseFailure")
        ELSE LET ref == AclReference(parts[2])
                 id  == I32FromStr(parts[1])
             IN  IF ref.kind # "Ok"
                 THEN ref
                 ELSE IF id.kind # "Ok"
                      THEN Err("ParseFailure")
                      ELSE Ok([id |-> id.val, reference |-> ref.val, description |-> parts[3]])

\* impl FromStr for Level.
LevelFromStr(s) ==
    CASE s = StrAdmin -> Ok("Admin")
      [] s = StrOperator -> Ok("Operator")
      [] s = StrUser -> Ok("User")
      [] OTHER -> Err("ParseFailure")

\* The largest octet of an IPv4 address and the largest port.
OctetMax == <<"2", "5", "5">>

PortMax == <<"6", "5", "5", "3", "5">>

\* One octet of a dotted IPv4 address: up to three digits, no leading zero, at most 255.
IsOctet(o) ==
    /\ Len(o) >= 1
    /\ Len(o) <= Len(OctetMax)
    /\ \A i \in 1..Len(o) : o[i] \in DecDigits
    /\ (Len(o) > 1 => Head(o) # "0")
    /\ NumLE(o, OctetMax)

\* A port: decimal digits, at most 65535.
IsPort(p) ==
    /\ Len(p) >= 1
    /\ \A i \in 1..Len(p) : p[i] \in DecDigits
    /\ NumLE(StripZeros(p), PortMax)

\* std::net::SocketAddrV4::from_str: "a.b.c.d:port".
SocketAddrV4FromStr(a) ==
    LET hp == Split(a, ":")
        os == Split(hp[1], ".")
    IN  IF Len(hp) = 2 /\ Len(os) = 4 /\ (\A i \in 1..4 : IsOctet(os[i])) /\ IsPort(hp[2])
        THEN Ok([ip |-> os, port |-> StripZeros(hp[2])])
        ELSE Err("AddrParseError")

\* The IPv6 addresses the responses of this model use.
Ipv6Texts == {<<":", ":">>, <<":", ":", "1">>}

\* std::net::SocketAddrV6::from_str, for the addresses of Ipv6Texts: "[addr]:port".
SocketAddrV6FromStr(a) ==
    LET close == IndexOf(a, "]")
        addr  == SubSeq(a, 2, close - 1)
        port  == SubSeq(a, close + 2, Len(a))
    IN  IF /\ Len(a) >= 1
           /\ Head(a) = "["
           /\ close > 0
           /\ close < Len(a)
           /\ a[close + 1] = ":"
           /\ addr \in Ipv6Texts
           /\ IsPort(port)
        THEN Ok([ip |-> addr, port |-> StripZeros(port)])
        ELSE Err("AddrParseError")

\* A CliSocketAddr::from_str that takes the scheme "unknown" with or without an address.
CliSocketAddrFromStrUnknownScheme(s) ==
    LET parts == SplitN(s, 2, "@")
    IN  IF parts[1] = StrUnknown
        THEN Ok([tag |-> "Unknown"])
        ELSE IF Len(parts) = 1
        THEN Err("ParseFailure")
        ELSE CASE parts[1] = StrUnix -> Ok([tag |-> "Unix", val |-> parts[2]])
               [] parts[1] = StrIpv4 ->
                    IF SocketAddrV4FromStr(parts[2]).kind = "Ok"
                    THEN Ok([tag |-> "Ip", val |-> SocketAddrV4FromStr(parts[2]).val])
                    ELSE Err("ParseFailure")
               [] parts[1] = StrIpv6 ->
                    IF SocketAddrV6FromStr(parts[2]).kind = "Ok"
                    THEN Ok([tag |-> "Ip", val |-> SocketAddrV6FromStr(parts[2]).val])
                    ELSE Err("ParseFailure")
               [] parts[1] = StrSockpair -> Ok([tag |-> "SocketPair", val |-> parts[2]])
               [] parts[1] = StrAbns -> Ok([tag |-> "AbstractSocket", val |-> parts[2]])
               [] OTHER -> Err("ParseFailure")

\* impl FromStr for CliSocketAddr.
CliSocketAddrFromStr(s) ==
    LET parts == SplitN(s, 2, "@")
    IN  IF Len(parts) = 1
        THEN IF parts[1] = StrUnknown THEN Ok([tag |-> "Unknown"]) ELSE Err("ParseFailure")
        ELSE CASE parts[1] = StrUnix -> Ok([tag |-> "Unix", val |-> parts[2]])
               [] parts[1] = StrIpv4 ->
                    IF SocketAddrV4FromStr(parts[2]).kind = "Ok"
                    THEN Ok([tag |-> "Ip", val |-> SocketAddrV4FromStr(parts[2]).val])
                    ELSE Err("ParseFailure")
               [] parts[1] = StrIpv6 ->
                    IF SocketAddrV6FromStr(parts[2]).kind = "Ok"
                    THEN Ok([tag |-> "Ip", val |-> SocketAddrV6FromStr(parts[2]).val])
                    ELSE Err("ParseFailure")
               [] parts[1] = StrSockpair -> Ok([tag |-> "SocketPair", val |-> parts[2]])
               [] parts[1] = StrAbns -> Ok([tag |-> "AbstractSocket", val |-> parts[2]])
               [] OTHER -> Err("ParseFailure")

\* A CliSocketProcesses::from_str that leaves the empty tokens out.
CliSocketProcessesFromStrNoEmpty(s) ==
    IF s = StrAll
    THEN Ok([tag |-> "All"])
    ELSE LET IsToken(t) == t # <<>>
             toks == SelectSeq(Split(s, ","), IsToken)
         IN  IF \A i \in 1..Len(toks) : U32FromStr(toks[i]).kind = "Ok"
             THEN Ok([tag |-> "List", val |-> [i \in 1..Len(toks) |-> U32FromStr(toks[i]).val]])
             ELSE Err("ParseFailure")

\* impl FromStr for CliSocketProcesses.
CliSocketProcessesFromStr(s) ==
    IF s = StrAll
    THEN Ok([tag |-> "All"])
    ELSE LET toks == Split(s, ",")
         IN  IF \A i \in 1..Len(toks) : U32FromStr(toks[i]).kind = "Ok"
             THEN Ok([tag |-> "List", val |-> [i \in 1..Len(toks) |-> U32FromStr(toks[i]).val]])
             ELSE Err("ParseFailure")

\* A CliSocket::from_str that cuts the line at every space and reads its first three
\* fields.
CliSocketFromStrFirstThree(s) ==
    LET parts == Split(s, SP)
    IN  IF Len(parts) < 3
        THEN Err("ParseFailure")
        ELSE LET address   == CliSocketAddrFromStr(parts[1])
                 level     == LevelFromStr(parts[2])
                 processes == CliSocketProcessesFromStr(parts[3])
             IN  IF address.kind # "Ok" THEN Err("ParseFailure")
                 ELSE IF level.kind # "Ok" THEN Err("ParseFailure")
                 ELSE IF processes.kind # "Ok" THEN Err("ParseFailure")
                 ELSE Ok([address |-> address.val, level |-> level.val,
                          processes |-> processes.val])

\* impl FromStr for CliSocket.
CliSocketFromStr(s) ==
    LET parts == SplitN(s, 3, SP)
    IN  IF Len(parts) # 3
        THEN Err("ParseFailure")
        ELSE LET address   == CliSocketAddrFromStr(parts[1])
                 level     == LevelFromStr(parts[2])
                 processes == CliSocketProcessesFromStr(parts[3])
             IN  IF address.kind # "Ok" THEN Err("ParseFailure")
                 ELSE IF level.kind # "Ok" THEN Err("ParseFailure")
                 ELSE IF processes.kind # "Ok" THEN Err("ParseFailure")
                 ELSE Ok([address |-> address.val, level |-> level.val,
                          processes |-> processes.val])

(***************************************************************************)
(* models.rs: AclEntry<T>, for the value types T = String and T = u32.     *)
(***************************************************************************)
ValueTypes == {"String", "u32"}

\* T::from_str of the value type the caller chose.
ValueFromStr(T, s) == IF T = "u32" THEN U32FromStr(s) ELSE Ok(s)

\* impl<T: FromStr> FromStr for AclEntry<T>.
AclEntryFromStr(T, s) ==
    LET parts == SplitN(s, 2, SP)
    IN  IF Len(parts) # 2
        THEN Err("ParseFailure")
        ELSE IF ~StartsWith(parts[1], <<"0", "x">>)
             THEN Err("ParseFailure")
             ELSE LET hex   == Slice(parts[1], 2, Len(parts[1]))
                      id    == U64FromStrRadix16(hex.val)
                      value == ValueFromStr(T, parts[2])
                  IN  IF hex.kind = "Panic" THEN Panic
                      ELSE IF id.kind # "Ok" THEN Err("ParseFailure")
                      ELSE IF value.kind # "Ok" THEN Err("ParseFailure")
                      ELSE Ok([id |-> id.val, value |-> value.val])

(***************************************************************************)
(* requests.rs, models.rs: how the identifiers are displayed.              *)
(***************************************************************************)
DigitChar(d) == <<"0", "1", "2", "3", "4", "5", "6", "7", "8", "9">>[d + 1]

RECURSIVE NatDisplay(_)
NatDisplay(n) ==
    IF n < 10 THEN <<DigitChar(n)>> ELSE NatDisplay(n \div 10) \o <<DigitChar(n % 10)>>

\* impl Display for i32.
I32Display(n) == IF n < 0 THEN <<"-">> \o NatDisplay(0 - n) ELSE NatDisplay(n)

\* impl Display for AclId.
AclIdDisplay(id) == <<"#">> \o I32Display(id.n)

\* impl Display for BackendId.
BackendIdDisplay(b) ==
    CASE b.tag = "All" -> <<"-", "1">>
      [] b.tag = "Name" -> b.name
      [] b.tag = "Id" -> I32Display(b.n)

(***************************************************************************)
(* commands.rs: the bytes each command writes.                             *)
(***************************************************************************)
StrShow == <<"s", "h", "o", "w">>

StrAcl == <<"a", "c", "l">>

StrErrors == <<"e", "r", "r", "o", "r", "s">>

StrRequest == <<"r", "e", "q", "u", "e", "s", "t">>

StrResponse == <<"r", "e", "s", "p", "o", "n", "s", "e">>

end == <<LF>>

show_acl == StrShow \o <<SP>> \o StrAcl

show_acl_entries(id) == StrShow \o <<SP>> \o StrAcl \o <<SP>> \o AclIdDisplay(id)

show_cli_level == StrShow \o <<SP, "c", "l", "i", SP, "l", "e", "v", "e", "l">>

show_cli_sockets == StrShow \o <<SP, "c", "l", "i", SP, "s", "o", "c", "k", "e", "t", "s">>

show_errors == StrShow \o <<SP>> \o StrErrors

\* A show_errors_backend that puts no space before the word of the flag.
show_errors_backend_glued(id, error_type) ==
    LET error_type_str ==
            CASE error_type = "All" -> <<>>
              [] error_type = "Request" -> StrRequest
              [] error_type = "Response" -> StrResponse
    IN  StrShow \o <<SP>> \o StrErrors \o <<SP>> \o BackendIdDisplay(id) \o error_type_str

show_errors_backend(id, error_type) ==
    LET error_type_str ==
            CASE error_type = "All" -> <<>>
              [] error_type = "Request" -> <<SP>> \o StrRequest
              [] error_type = "Response" -> <<SP>> \o StrResponse
    IN  StrShow \o <<SP>> \o StrErrors \o <<SP>> \o BackendIdDisplay(id) \o error_type_str

\* commands::add_acl is called by Connection::acl_add; its text is the one spec.md gives.
add_acl(id, value) ==
    <<"a", "d", "d", SP>> \o StrAcl \o <<SP>> \o AclIdDisplay(id) \o <<SP>> \o value

\* An acl_add that passes the whole of value.to_string() to add_acl.
CommandTextWholeValue(c) ==
    CASE c.m = "acl_add" -> add_acl(c.id, c.value)
      [] c.m = "acl_data" -> show_acl_entries(c.id)
      [] c.m = "acl_list" -> show_acl
      [] c.m = "level" -> show_cli_level
      [] c.m = "cli_sockets" -> show_cli_sockets
      [] c.m = "errors" -> show_errors
      [] c.m = "errors_backend" -> show_errors_backend(c.backend, c.error_type)

\* The command text a method writes before commands::end.
CommandText(c) ==
    CASE c.m = "acl_add" -> add_acl(c.id, SplitN(c.value, 2, SP)[1])
      [] c.m = "acl_data" -> show_acl_entries(c.id)
      [] c.m = "acl_list" -> show_acl
      [] c.m = "level" -> show_cli_level
      [] c.m = "cli_sockets" -> show_cli_sockets
      [] c.m = "errors" -> show_errors
      [] c.m = "errors_backend" -> show_errors_backend(c.backend, c.error_type)

(***************************************************************************)
(* Reading the response: BufRead::read_line and BufRead::lines.            *)
(***************************************************************************)
\* String::pop: removes the last character, all of its bytes.
Pop(s) ==
    IF s = <<>>
    THEN s
    ELSE IF IsContinuationByte(s[Len(s)]) /\ Len(s) >= 2
         THEN SubSeq(s, 1, Len(s) - 2)
         ELSE SubSeq(s, 1, Len(s) - 1)

\* One read_line on the unread data s: the bytes up to and with the first newline, or up
\* to the end of the data; err is "io" when a read of the stream fails before that (the
\* marker EIO in the data, or a stream whose tail is "err" once its data is used up) and
\* "utf8" when the bytes read are not UTF-8.
ReadLine(s, tail) ==
    LET nl  == IndexOf(s, LF)
        eio == IndexOf(s, EIO)
    IN  IF eio > 0 /\ (nl = 0 \/ eio < nl)
        THEN [err |-> "io", line |-> SubSeq(s, 1, eio - 1), rest |-> SubSeq(s, eio + 1, Len(s))]
        ELSE IF nl > 0
             THEN [err  |-> IF ValidUtf8(SubSeq(s, 1, nl)) THEN "none" ELSE "utf8",
                   line |-> SubSeq(s, 1, nl),
                   rest |-> SubSeq(s, nl + 1, Len(s))]
             ELSE IF tail = "err"
                  THEN [err |-> "io", line |-> s, rest |-> <<>>]
                  ELSE [err  |-> IF ValidUtf8(s) THEN "none" ELSE "utf8",
                        line |-> s,
                        rest |-> <<>>]

\* io::Lines::next: None at the end of input, Some(Err) for a failed read, else Some(Ok)
\* of the line without its "\n" or "\r\n".
LinesNext(s, tail) ==
    LET r == ReadLine(s, tail)
        noLF == IF Len(r.line) > 0 /\ r.line[Len(r.line)] = LF THEN Pop(r.line) ELSE r.line
        noCR == IF Len(r.line) > 0 /\ r.line[Len(r.line)] = LF
                   /\ Len(noLF) > 0 /\ noLF[Len(noLF)] = CR
                THEN Pop(noLF) ELSE noLF
    IN  IF r.err # "none"
        THEN [kind |-> "Err", err |-> r.err, rest |-> r.rest]
        ELSE IF Len(r.line) = 0
             THEN [kind |-> "None", rest |-> r.rest]
             ELSE [kind |-> "Ok", line |-> noCR, rest |-> r.rest]

(***************************************************************************)
(* parsers.rs: the decoders.                                               *)
(***************************************************************************)
\* A parse_acl_add that takes the end of input for the empty line of a success.
parse_acl_add_eof_ok(buf) ==
    IF buf = <<>> \/ buf = <<LF>> THEN Ok("unit")
    ELSE IF StartsWith(buf, StrAddAclExpects) THEN Err("MissingParameters")
    ELSE IF StartsWith(buf, StrUnknownAclId) THEN Err("UnknownId")
    ELSE Err("ParseFailure")

\* parse_acl_add, once read_line has filled buf.
parse_acl_add(buf) ==
    IF buf = <<LF>> THEN Ok("unit")
    ELSE IF StartsWith(buf, StrAddAclExpects) THEN Err("MissingParameters")
    ELSE IF StartsWith(buf, StrUnknownAclId) THEN Err("UnknownId")
    ELSE Err("ParseFailure")

\* parse_errors, once read_line has filled buf.
parse_errors(buf) ==
    LET count == RSplitN(Pop(buf), 2, SP)[1]
    IN  IF U32FromStr(count).kind = "Ok" THEN Ok(U32FromStr(count).val) ELSE Err("ParseFailure")

\* Connection::level, once read_line has filled buf.
level(buf) == LevelFromStr(Pop(buf))

\* A filter that drops the empty lines only, and lets the '#' lines through.
skip_empty_lines(item) ==
    ~(IF item.kind = "Ok" THEN item.line = <<>> ELSE TRUE)

\* The filter of skip_comment_or_empty_lines: TRUE for the items it lets through.
skip_comment_or_empty_lines(item) ==
    ~(IF item.kind = "Ok" THEN item.line = <<>> \/ StartsWith(item.line, <<"#">>) ELSE TRUE)

\* The closure the decoders map over the lines: the io::Error becomes Error::IoError, the
\* line goes to from_str.
RecordOf(c, item) ==
    IF item.kind = "Err"
    THEN Err("IoError")
    ELSE CASE c.m = "acl_list" -> AclFromStr(item.line)
           [] c.m = "acl_data" -> AclEntryFromStr(c.T, item.line)
           [] c.m = "cli_sockets" -> CliSocketFromStr(item.line)

\* A peek that wants the whole line to be the message, not only its beginning.
IsExactlyUnknownIdLine(item) == item.kind = "Ok" /\ item.line = StrUnknownAclId

\* parse_acl_entries peeks at the first item that passed the filter.
IsUnknownIdLine(item) == item.kind = "Ok" /\ StartsWith(item.line, StrUnknownAclId)

(***************************************************************************)
(* The inputs: the arguments of the calls and the responses of the remote  *)
(* process.  A response is up to MaxChunks (MaxLines) pieces of text put   *)
(* one after the other, and what the stream does once they are read: end   *)
(* of input ("eof") or a read error on every further read ("err").         *)
(***************************************************************************)
MaxChunks == 3

MaxLines == 3

RECURSIVE Streams(_, _)
Streams(Items, n) ==
    IF n = 0
    THEN {<<>>}
    ELSE Streams(Items, n - 1) \cup {s \o i : s \in Streams(Items, n - 1), i \in Items}

Responses(Items, n) == [data : Streams(Items, n), tail : {"eof", "err"}]

AclIds == {[tag |-> "Id", n |-> 0], [tag |-> "Id", n |-> 12]}

AddValues == {<<>>, <<"v">>, <<SP, "v">>, <<"v", SP, "w">>}

BackendIds ==
    {[tag |-> "All"], [tag |-> "Id", n |-> 0 - 1], [tag |-> "Id", n |-> 7],
     [tag |-> "Name", name |-> <<"7">>], [tag |-> "Name", name |-> <<"b">>],
     [tag |-> "Name", name |-> <<"b", LF, "x">>]}

ErrorFlags == {"All", "Request", "Response"}

\* Pieces of a response to "add acl".
AclAddChunks ==
    {<<LF>>, <<CR>>, <<"x">>, <<EIO>>, StrAddAclExpects \o <<":">>, StrUnknownAclId \o <<".">>}

\* Pieces of a response to "show errors".
ErrorsChunks ==
    {<<LF>>, <<SP>>, <<"x", ":", SP>>, <<"4", "2">>, <<"+", "5">>, <<"0", "0", "7">>,
     U32Max, <<"4", "2", "9", "4", "9", "6", "7", "2", "9", "6">>, <<EIO>>}

\* Pieces of a response to "show cli level".
LevelChunks ==
    {<<LF>>, <<CR>>, <<SP>>, StrAdmin, StrOperator, StrUser, <<"A">>, <<"C3", "A9">>, <<EIO>>}

\* Lines of a response to "show acl".
AclListLines ==
    {<<LF>>, <<CR, LF>>, <<"#", SP, "i", "d", LF>>, <<EIO>>,
     <<"0", SP, "(", ")", SP, "d", LF>>,
     <<"1", SP, "(", "t", ")", SP, "d", SP, "e", LF>>,
     <<"1", SP, "(", ")", LF>>,
     <<"2", SP, "C3", "A9", ")", SP, "d", LF>>,
     <<"3", SP, "(", ")", SP, "d">>}

\* Lines of a response to "show acl #<id>".
AclDataLines ==
    {<<LF>>, <<"#", SP, "i", "d", LF>>, <<EIO>>,
     StrUnknownAclId \o <<".", LF>>,
     <<"0", "x", "1", "F", SP, "7", LF>>,
     <<"0", "x", "2", "a", SP, "v", SP, "w", LF>>,
     <<"1", "f", SP, "v", LF>>,
     <<"0", "x", "3", SP, "8">>}

\* Lines of a response to "show cli sockets".
CliSocketsLines ==
    {<<LF>>, <<"#", SP, "i", "d", LF>>, <<EIO>>,
     StrUnix \o <<"@", "/", "s", SP>> \o StrAdmin \o <<SP>> \o StrAll \o <<LF>>,
     StrIpv4 \o <<"@", "1", ".", "2", ".", "3", ".", "4", ":", "8", "0", SP>>
         \o StrUser \o <<SP, "0", ",", "1", LF>>,
     StrUnknown \o <<SP>> \o StrOperator \o <<SP, "2", LF>>,
     <<"b", "@", "x", SP>> \o StrAdmin \o <<SP>> \o StrAll \o <<LF>>,
     StrUnix \o <<"@", "/", "s", SP>> \o StrAdmin \o <<LF>>}

AclAddResponses == Responses(AclAddChunks, MaxChunks)

ErrorsResponses == Responses(ErrorsChunks, MaxChunks)

LevelResponses == Responses(LevelChunks, MaxChunks)

AclListResponses == Responses(AclListLines, MaxLines)

AclDataResponses == Responses(AclDataLines, MaxLines)

CliSocketsResponses == Responses(CliSocketsLines, MaxLines)

\* What the remote process may answer to the command of method m.
ResponsesTo(m) ==
    CASE m = "acl_add" -> AclAddResponses
      [] m = "acl_data" -> AclDataResponses
      [] m = "acl_list" -> AclListResponses
      [] m = "level" -> LevelResponses
      [] m = "cli_sockets" -> CliSocketsResponses
      [] m \in {"errors", "errors_backend"} -> ErrorsResponses

(***************************************************************************)
(* connection.rs: the Connection and its methods.                          *)
(***************************************************************************)
Init ==
    /\ handle = "live"
    /\ pc = "idle"
    /\ call = [m |-> "none"]
    /\ written = <<>>
    /\ events = <<>>
    /\ ncmds = 0
    /\ response = [data |-> <<>>, tail |-> "eof"]
    /\ stream = <<>>
    /\ started = FALSE
    /\ acc = <<>>
    /\ nparsed = 0
    /\ readFailed = FALSE
    /\ oddReads = FALSE
    /\ result = Pending

\* A method that borrows the Connection (`&mut self`) leaves it with the caller.
BorrowSelf(h) == h

\* What is left of the caller's Connection once a method was called on it: every method
\* takes `mut self`, so the value is moved into the call.
TakeSelf(h) == "moved"

\* The first statement of every method: the command is written with write_all/write_fmt,
\* and an error of the write is returned at once (`?`).
Issue(c) ==
    /\ handle = "live"
    /\ pc \in {"idle", "done"}
    /\ handle' = TakeSelf(handle)
    /\ call' = c
    /\ ncmds' = ncmds + 1
    /\ \/ /\ written' = written \o CommandText(c)
          /\ events' = Append(events, "cmd")
          /\ pc' = "cmd_written"
          /\ result' = Pending
       \/ /\ \E k \in 0..(Len(CommandText(c)) - 1) :
                written' = written \o SubSeq(CommandText(c), 1, k)
          /\ events' = events
          /\ pc' = "done"
          /\ result' = Err("IoError")
    /\ UNCHANGED <<response, stream, started, acc, nparsed, readFailed, oddReads>>

acl_add == \E id \in AclIds, value \in AddValues :
    Issue([m |-> "acl_add", id |-> id, value |-> value])

acl_data == \E id \in AclIds, T \in ValueTypes :
    Issue([m |-> "acl_data", id |-> id, T |-> T])

acl_list == Issue([m |-> "acl_list"])

cli_level == Issue([m |-> "level"])

cli_sockets == Issue([m |-> "cli_sockets"])

errors == Issue([m |-> "errors"])

errors_backend == \E backend \in BackendIds, error_type \in ErrorFlags :
    Issue([m |-> "errors_backend", backend |-> backend, error_type |-> error_type])

\* A method that forgets commands::end and goes on to read the response.
ReadWithoutEnd ==
    /\ pc = "cmd_written"
    /\ pc' = "reading"
    /\ \E r \in ResponsesTo(call.m) : response' = r /\ stream' = r.data
    /\ UNCHANGED <<written, events, result>>
    /\ UNCHANGED <<handle, call, ncmds, started, acc, nparsed, readFailed, oddReads>>

\* commands::end(&mut self.socket)?: the newline that ends the command.  The remote process
\* answers once it has it.
WriteEnd ==
    /\ pc = "cmd_written"
    /\ \/ /\ written' = written \o end
          /\ events' = Append(events, "end")
          /\ pc' = "reading"
          /\ \E r \in ResponsesTo(call.m) : response' = r /\ stream' = r.data
          /\ result' = result
       \/ /\ pc' = "done"
          /\ result' = Err("IoError")
          /\ UNCHANGED <<written, events, response, stream>>
    /\ UNCHANGED <<handle, call, ncmds, started, acc, nparsed, readFailed, oddReads>>

\* The stream events after a read: the first read is recorded.
AfterRead(ev) == IF \E i \in 1..Len(ev) : ev[i] = "read" THEN ev ELSE Append(ev, "read")

\* A Connection whose errors() has a decoder of its own, which takes the count to be the
\* whole line.
DecodeLineErrorsApart(buf) ==
    CASE call.m = "acl_add" -> parse_acl_add(buf)
      [] call.m = "level" -> level(buf)
      [] call.m = "errors_backend" -> parse_errors(buf)
      [] call.m = "errors" ->
            IF U32FromStr(Pop(buf)).kind = "Ok"
            THEN Ok(U32FromStr(Pop(buf)).val)
            ELSE Err("ParseFailure")

\* The decoders that read one line: parse_acl_add, parse_errors and the body of level.
DecodeLine(buf) ==
    CASE call.m = "acl_add" -> parse_acl_add(buf)
      [] call.m = "level" -> level(buf)
      [] call.m \in {"errors", "errors_backend"} -> parse_errors(buf)

\* reader.read_line(&mut buf)? and the rest of a one-line decoder.
ReadOneLine ==
    /\ pc = "reading"
    /\ call.m \in {"acl_add", "level", "errors", "errors_backend"}
    /\ LET r == ReadLine(stream, response.tail)
       IN  /\ stream' = r.rest
           /\ readFailed' = (readFailed \/ r.err = "io")
           /\ oddReads' = ~oddReads
           /\ result' = IF r.err # "none" THEN Err("IoError") ELSE DecodeLine(r.line)
    /\ events' = AfterRead(events)
    /\ pc' = "done"
    /\ UNCHANGED <<handle, call, written, ncmds, response, started, acc, nparsed>>

\* One turn of the iterator chain of parse_acl_list, parse_acl_entries and
\* parse_cli_sockets: lines() reads a line, the filter drops it or lets it through, the
\* peek of parse_acl_entries looks at the first line let through, the map parses the line
\* and collect() keeps the record or stops at the error.
ReadNextLine ==
    /\ pc = "reading"
    /\ call.m \in {"acl_list", "acl_data", "cli_sockets"}
    /\ LET item == LinesNext(stream, response.tail)
           rec  == RecordOf(call, item)
       IN  /\ stream' = item.rest
           /\ readFailed' = (readFailed \/ (item.kind = "Err" /\ item.err = "io"))
           /\ oddReads' = ~oddReads
           /\ IF item.kind = "None"
              THEN /\ result' = Ok(acc)
                   /\ pc' = "done"
                   /\ UNCHANGED <<started, acc, nparsed>>
              ELSE IF ~skip_comment_or_empty_lines(item)
              THEN UNCHANGED <<result, pc, started, acc, nparsed>>
              ELSE IF call.m = "acl_data" /\ ~started /\ IsUnknownIdLine(item)
              THEN /\ result' = Err("UnknownId")
                   /\ pc' = "done"
                   /\ started' = TRUE
                   /\ UNCHANGED <<acc, nparsed>>
              ELSE /\ started' = TRUE
                   /\ nparsed' = IF item.kind = "Ok" THEN nparsed + 1 ELSE nparsed
                   /\ IF rec.kind = "Ok"
                      THEN acc' = Append(acc, rec.val) /\ UNCHANGED <<result, pc>>
                      ELSE acc' = acc /\ result' = rec /\ pc' = "done"
    /\ events' = AfterRead(events)
    /\ UNCHANGED <<handle, call, written, ncmds, response>>

\* ConnectionBuilder::connect: a new Connection, for the next command.
Connect ==
    /\ pc = "done"
    /\ handle' = "live"
    /\ pc' = "idle"
    /\ call' = [m |-> "none"]
    /\ written' = <<>>
    /\ events' = <<>>
    /\ ncmds' = 0
    /\ response' = [data |-> <<>>, tail |-> "eof"]
    /\ stream' = <<>>
    /\ started' = FALSE
    /\ acc' = <<>>
    /\ nparsed' = 0
    /\ readFailed' = FALSE
    /\ oddReads' = FALSE
    /\ result' = Pending

Next ==
    \/ acl_add
    \/ acl_data
    \/ acl_list
    \/ cli_level
    \/ cli_sockets
    \/ errors
    \/ errors_backend
    \/ WriteEnd
    \/ ReadOneLine
    \/ ReadNextLine
    \/ Connect

Spec == Init /\ [][Next]_vars

(***************************************************************************)
(* What the properties below are stated with.  These read the response as  *)
(* it was sent, not the buffers of the decoders.                           *)
(***************************************************************************)
HasEvent(e) == \E i \in 1..Len(events) : events[i] = e

\* The method got as far as reading the response and has returned.
Returned(ms) == pc = "done" /\ call.m \in ms /\ HasEvent("read")

HasPrefix(s, p) == \A i \in 1..Len(p) : i <= Len(s) /\ s[i] = p[i]

Contains(s, b) == \E i \in 1..Len(s) : s[i] = b

\* The first line of the response, with its newline when it has one.
FirstLine ==
    LET d == response.data
    IN  IF Contains(d, LF)
        THEN SubSeq(d, 1, CHOOSE i \in 1..Len(d) : d[i] = LF /\ ~Contains(SubSeq(d, 1, i - 1), LF))
        ELSE d

\* Reading the first line met no read error.
FirstLineRead ==
    /\ ~Contains(FirstLine, EIO)
    /\ (~Contains(response.data, LF) => response.tail = "eof")

\* The first line without the newline that ends it.
FirstLineText ==
    IF Contains(FirstLine, LF) THEN SubSeq(FirstLine, 1, Len(FirstLine) - 1) ELSE FirstLine

\* The text after the last space of s.
AfterLastSpace(s) ==
    SubSeq(s, 1 + (CHOOSE i \in 1..Len(s) : s[i] = SP /\ ~Contains(SubSeq(s, i + 1, Len(s)), SP)),
           Len(s))

\* t is a decimal unsigned 32-bit integer: digits only, at least one, at most 4294967295.
IsDecimalU32(t) ==
    /\ t # <<>>
    /\ \A i \in 1..Len(t) : t[i] \in DecDigits
    /\ NumLE(StripZeros(t), U32Max)

\* Every item the lines of the response give, in order, up to the end of its data.
RECURSIVE ItemsOf(_, _)
ItemsOf(s, tail) ==
    IF s = <<>>
    THEN <<>>
    ELSE <<LinesNext(s, tail)>> \o ItemsOf(LinesNext(s, tail).rest, tail)

IsOkItem(item) == item.kind = "Ok"

IsDataItem(item) == item.kind = "Ok" /\ item.line # <<>> /\ item.line[1] # "#"

\* The lines of the response that were read.
LinesRead == SelectSeq(ItemsOf(response.data, response.tail), IsOkItem)

\* The lines of the response that are neither empty nor a '#' comment.
DataLines == SelectSeq(ItemsOf(response.data, response.tail), IsDataItem)

ListDecoders == {"acl_list", "acl_data", "cli_sockets"}

LineDecoders == {"acl_add", "level", "errors", "errors_backend"}

(***************************************************************************)
(* The properties.                                                         *)
(***************************************************************************)

\* C1: in every method the command text is written first, then commands::end writes the
\* newline, once, and only then is the response read: the stream events are always a
\* prefix of cmd, end, read; nothing of the response is consumed before the newline is
\* written, and when the response is read the bytes written are the command text followed
\* by that one newline.
C1_CommandThenEndThenRead ==
    /\ events \in {<<>>, <<"cmd">>, <<"cmd", "end">>, <<"cmd", "end", "read">>}
    /\ (stream # response.data \/ readFailed \/ nparsed > 0 \/ acc # <<>>) => HasEvent("read")
    /\ HasEvent("read") => written = CommandText(call) \o <<LF>>
    /\ (pc = "reading" \/ (pc = "done" /\ result.kind \in {"Ok", "Panic"})) => HasEvent("end")

C1_Witness ==
    /\ pc = "done"
    /\ call.m = "errors_backend"
    /\ events = <<"cmd", "end", "read">>
    /\ result.kind = "Ok"

\* C2: a Connection issues at most one command: once a method was called the handle is
\* gone, and the bytes written on the connection never hold a second command text.
C2_OneCommandPerConnection ==
    /\ ncmds <= 1
    /\ ncmds = 0 => written = <<>>
    /\ ncmds = 1 => handle = "moved" /\ Len(written) <= Len(CommandText(call)) + 1

C2_Witness ==
    /\ pc = "done"
    /\ ncmds = 1
    /\ handle = "moved"
    /\ result.kind = "Ok"
    /\ ~ENABLED acl_list

\* C3: parse_acl_add gives Ok exactly for a line that is a bare newline, MissingParameters
\* for a line that begins with "'add acl' expects two parameters", UnknownId for one that
\* begins with "Unknown ACL identifier", and ParseFailure for everything else, the empty
\* stream included.
C3_AclAddClassification ==
    (Returned({"acl_add"}) /\ FirstLineRead) =>
        /\ result = Ok("unit") <=> FirstLine = <<LF>>
        /\ HasPrefix(FirstLine, StrAddAclExpects) => result = Err("MissingParameters")
        /\ HasPrefix(FirstLine, StrUnknownAclId) => result = Err("UnknownId")
        /\ ( /\ FirstLine # <<LF>>
             /\ ~HasPrefix(FirstLine, StrAddAclExpects)
             /\ ~HasPrefix(FirstLine, StrUnknownAclId) ) => result = Err("ParseFailure")
        /\ response.data = <<>> => result = Err("ParseFailure")

C3_Witness ==
    /\ Returned({"acl_add"})
    /\ FirstLineRead
    /\ HasPrefix(FirstLine, StrAddAclExpects)
    /\ result = Err("MissingParameters")

\* C4: when the line parse_errors read has a space, the result is the decimal u32 after
\* the last space, and ParseFailure when that text is no decimal u32.
C4_ErrorsCountAfterLastSpace ==
    (Returned({"errors", "errors_backend"}) /\ FirstLineRead /\ Contains(FirstLineText, SP)) =>
        IF IsDecimalU32(AfterLastSpace(FirstLineText))
        THEN result = Ok(StripZeros(AfterLastSpace(FirstLineText)))
        ELSE result = Err("ParseFailure")

\* C5: parse_errors fails with ParseFailure when there is no line or the line has no space.
C5_ErrorsNeedsSpace ==
    (Returned({"errors", "errors_backend"}) /\ FirstLineRead /\ ~Contains(FirstLineText, SP)) =>
        result = Err("ParseFailure")

\* C6: a multi-line decoder that succeeds returns one record per line that is neither
\* empty nor a '#' comment, in the order of the lines, and a response without such a line
\* gives the empty list.
C6_OneRecordPerDataLine ==
    Returned(ListDecoders) =>
        /\ result.kind = "Ok" =>
              /\ Len(result.val) = Len(DataLines)
              /\ \A i \in 1..Len(DataLines) :
                    RecordOf(call, DataLines[i]) = Ok(result.val[i])
        /\ DataLines = <<>> => result.kind = "Ok" /\ result.val = <<>>

C6_Witness ==
    /\ Returned(ListDecoders)
    /\ result.kind = "Ok"
    /\ Len(result.val) = 2
    /\ Len(LinesRead) > Len(DataLines)
    /\ LinesRead[1].line # <<>>
    /\ LinesRead[2].line = <<>>

\* C7: when a line that is neither empty nor a comment does not parse as a record, the
\* multi-line decoder returns ParseFailure.
C7_BadLineFailsAll ==
    ( /\ Returned(ListDecoders)
      /\ \E i \in 1..Len(DataLines) : RecordOf(call, DataLines[i]).kind # "Ok" ) =>
        result = Err("ParseFailure")

\* C8: parse_acl_entries returns UnknownId exactly when the first line that is neither
\* empty nor a comment begins with "Unknown ACL identifier", and then no line was parsed.
C8_UnknownIdOnFirstDataLine ==
    Returned({"acl_data"}) =>
        /\ result = Err("UnknownId") <=>
              (DataLines # <<>> /\ HasPrefix(DataLines[1].line, StrUnknownAclId))
        /\ result = Err("UnknownId") => nparsed = 0 /\ acc = <<>>

C8_Witness ==
    /\ Returned({"acl_data"})
    /\ result = Err("UnknownId")
    /\ Len(LinesRead) >= 2
    /\ LinesRead[1].line = <<>>
    /\ HasPrefix(LinesRead[2].line, StrUnknownAclId)

\* C9: a read of the stream that fails makes the decoder return IoError: never a read
\* after it, never another result.
C9_ReadErrorIsReturned ==
    readFailed => pc = "done" /\ result = Err("IoError")

\* C10: no decoder and no record parser panics: what a method returns is Ok or one of the
\* four kinds of error.
C10_NoPanic ==
    pc = "done" =>
        \/ result.kind = "Ok"
        \/ result.kind = "Err" /\ result.err \in ErrorKinds

(***************************************************************************)
(* The command texts, written out byte by byte.                            *)
(***************************************************************************)
\* The decimal text of the integers the calls of this model use.
DecimalText(n) ==
    CASE n = 0 -> <<"0">>
      [] n = 7 -> <<"7">>
      [] n = 12 -> <<"1", "2">>
      [] n = 0 - 1 -> <<"-", "1">>

TextShowAcl == <<"s", "h", "o", "w", " ", "a", "c", "l">>

TextShowErrors == <<"s", "h", "o", "w", " ", "e", "r", "r", "o", "r", "s">>

\* render(b) of a backend id.
RenderText(b) ==
    CASE b.tag = "All" -> <<"-", "1">>
      [] b.tag = "Id" -> DecimalText(b.n)
      [] b.tag = "Name" -> b.name

\* suffix(f) of an error flag.
SuffixText(f) ==
    CASE f = "All" -> <<>>
      [] f = "Request" -> <<" ", "r", "e", "q", "u", "e", "s", "t">>
      [] f = "Response" -> <<" ", "r", "e", "s", "p", "o", "n", "s", "e">>

\* The bytes of the command of a call, for the methods other than acl_add.
ExpectedText(c) ==
    CASE c.m = "acl_list" -> TextShowAcl
      [] c.m = "acl_data" -> TextShowAcl \o <<" ", "#">> \o DecimalText(c.id.n)
      [] c.m = "level" -> <<"s", "h", "o", "w", " ", "c", "l", "i", " ", "l", "e", "v", "e", "l">>
      [] c.m = "cli_sockets" ->
            <<"s", "h", "o", "w", " ", "c", "l", "i", " ", "s", "o", "c", "k", "e", "t", "s">>
      [] c.m = "errors" -> TextShowErrors
      [] c.m = "errors_backend" ->
            TextShowErrors \o <<" ">> \o RenderText(c.backend) \o SuffixText(c.error_type)

\* C11: each encoder writes exactly the bytes of its command, without a newline, and end
\* writes exactly one "\n": once the command is written the bytes on the socket are the
\* expected text, and once end has run they are that text and one newline.
C11_EncoderBytes ==
    (call.m \notin {"none", "acl_add"}) =>
        /\ pc = "cmd_written" => written = ExpectedText(call)
        /\ HasEvent("end") => written = ExpectedText(call) \o <<"\n">>

C11_Witness ==
    /\ HasEvent("end")
    /\ call.m = "errors_backend"
    /\ call.backend.tag = "Name"
    /\ call.error_type = "Response"
    /\ written = TextShowErrors \o <<" ">> \o call.backend.name
                    \o <<" ", "r", "e", "s", "p", "o", "n", "s", "e", "\n">>

\* "add acl #<id> ", the beginning of the command of acl_add.
TextAddAcl(id) == <<"a", "d", "d", " ", "a", "c", "l", " ", "#">> \o DecimalText(id.n) \o <<" ">>

\* v is the part of value before its first space, value itself when it has none.
IsPartBeforeFirstSpace(v, value) ==
    /\ ~Contains(v, SP)
    /\ \E k \in 0..Len(value) :
          /\ v = SubSeq(value, 1, k)
          /\ (k = Len(value) \/ value[k + 1] = SP)

\* What acl_add wrote after "add acl #<id> ".
SentValue == SubSeq(written, Len(TextAddAcl(call.id)) + 1, Len(written))

\* C12: acl_add sends "add acl #<id> <v>", v being value.to_string() up to its first space;
\* v holds no space, and the call gets to commands::end for every value (it returns before
\* that only with the error of a write).
C12_AclAddValueCutAtSpace ==
    call.m = "acl_add" =>
        /\ pc = "cmd_written" =>
              /\ HasPrefix(written, TextAddAcl(call.id))
              /\ IsPartBeforeFirstSpace(SentValue, call.value)
        /\ (pc = "done" /\ ~HasEvent("cmd")) => result = Err("IoError")
        /\ result # Panic \/ HasEvent("read")

C12_Witness ==
    /\ call.m = "acl_add"
    /\ pc = "cmd_written"
    /\ call.value = <<"v", " ", "w">>
    /\ SentValue = <<"v">>

\* Every call the methods of this model make.
Calls ==
    {[m |-> "acl_add", id |-> id, value |-> value] : id \in AclIds, value \in AddValues}
    \cup {[m |-> "acl_data", id |-> id, T |-> T] : id \in AclIds, T \in ValueTypes}
    \cup {[m |-> "acl_list"], [m |-> "level"], [m |-> "cli_sockets"], [m |-> "errors"]}
    \cup {[m |-> "errors_backend", backend |-> backend, error_type |-> error_type] :
             backend \in BackendIds, error_type \in ErrorFlags}

\* The command a call encodes: its variant and the parameters given to the encoder.
CommandOf(c) ==
    CASE c.m = "acl_add" -> <<"add_acl", c.id, SplitN(c.value, 2, SP)[1]>>
      [] c.m = "acl_data" -> <<"show_acl_entries", c.id>>
      [] c.m = "errors_backend" -> <<"show_errors_backend", c.backend, c.error_type>>
      [] OTHER -> <<c.m>>

\* C13: two different commands never encode to the same bytes: the bytes a method wrote
\* are the text of no command other than its own.
C13_EncodingIsInjective ==
    pc = "cmd_written" =>
        \A c \in Calls : CommandOf(c) # CommandOf(call) => CommandText(c) # written

(***************************************************************************)
(* The record parsers on their own: from_str applied to a text.  A text is *)
(* up to MaxFields (MaxParts) fields put one after the other with the      *)
(* separator of the parser between them.                                   *)
(***************************************************************************)
MaxFields == 4

MaxParts == 3

\* Fields of a line of "show acl".
AclFields ==
    {<<>>, <<"0">>, <<"-", "5">>, <<"x">>, I32MinMagnitude,
     <<"(", ")">>, <<"(", "t", ")">>, <<"C3", "A9", ")">>, <<"x", "t", "y">>}

\* Fields of a line of "show acl #<id>".
AclEntryFields ==
    {<<>>, <<"0", "x", "1", "F">>, <<"0", "x">>, <<"1", "f">>, <<"0", "x", "g">>,
     <<"0", "x", "+", "1">>, <<"7">>,
     <<"0", "x">> \o [i \in 1..U64HexDigits |-> "F"],
     <<"0", "x", "1">> \o [i \in 1..U64HexDigits |-> "0"]}

\* Parts of a socket address.
CliSocketAddrParts ==
    {<<>>, StrUnix, StrIpv4, StrIpv6, StrSockpair, StrAbns, StrUnknown, <<"x">>, <<"/", "s">>,
     <<"1", ".", "2", ".", "3", ".", "4", ":", "8", "0">>,
     <<"1", ".", "2", ".", "3", ".", "2", "5", "6", ":", "8", "0">>,
     <<"1", ".", "2", ".", "3", ".", "4">>,
     <<"[", ":", ":", "1", "]", ":", "8", "0">>}

\* Tokens of a list of processes.
CliSocketProcessesTokens ==
    {<<>>, <<"0">>, <<"1">>, <<"+", "1">>, <<"x">>, StrAll, U32Max,
     <<"4", "2", "9", "4", "9", "6", "7", "2", "9", "6">>}

\* Fields of a line of "show cli sockets".
CliSocketFields ==
    {<<>>, StrUnix \o <<"@", "/", "s">>, StrUnknown, <<"b", "@", "x">>, StrAdmin, StrUser,
     StrAll, <<"0", ",", "1">>, <<"0", ",", "x">>}

\* The parsers, and for each the fields its texts are made of, the separator between
\* them and how many there are at most.
Parsers == {"Acl", "AclEntry", "CliSocketAddr", "CliSocketProcesses", "CliSocket"}

FieldsOf(m) ==
    CASE m = "Acl" -> AclFields
      [] m = "AclEntry" -> AclEntryFields
      [] m = "CliSocketAddr" -> CliSocketAddrParts
      [] m = "CliSocketProcesses" -> CliSocketProcessesTokens
      [] m = "CliSocket" -> CliSocketFields

SeparatorOf(m) ==
    CASE m \in {"Acl", "AclEntry", "CliSocket"} -> SP
      [] m = "CliSocketAddr" -> "@"
      [] m = "CliSocketProcesses" -> ","

LimitOf(m) == IF m \in {"Acl", "CliSocket"} THEN MaxFields ELSE MaxParts

\* The calls of from_str on a text of one field.
ParseCalls ==
    {[m |-> "AclEntry", T |-> T, s |-> s] : T \in ValueTypes, s \in AclEntryFields}
    \cup UNION {{[m |-> m, s |-> s] : s \in FieldsOf(m)} : m \in Parsers \ {"AclEntry"}}

ParseInit ==
    /\ handle = "live"
    /\ pc = "input"
    /\ call \in ParseCalls
    /\ written = <<>>
    /\ events = <<>>
    /\ ncmds = 0
    /\ response = [data |-> <<>>, tail |-> "eof"]
    /\ stream = <<>>
    /\ started = FALSE
    /\ acc = <<>>
    /\ nparsed = 0
    /\ readFailed = FALSE
    /\ oddReads = FALSE
    /\ result = Pending

\* The text to parse gets one more field.
OneMoreField ==
    /\ pc = "input"
    /\ Len(Split(call.s, SeparatorOf(call.m))) < LimitOf(call.m)
    /\ \E f \in FieldsOf(call.m) :
          call' = [call EXCEPT !.s = @ \o <<SeparatorOf(call.m)>> \o f]
    /\ UNCHANGED <<handle, pc, written, events, ncmds, response, stream,
                   started, acc, nparsed, readFailed, oddReads, result>>

\* from_str of the type m returns r.
Returns(m, r) ==
    /\ pc = "input"
    /\ call.m = m
    /\ result' = r
    /\ pc' = "parsed"
    /\ UNCHANGED <<handle, call, written, events, ncmds, response, stream,
                   started, acc, nparsed, readFailed, oddReads>>

Acl_from_str == Returns("Acl", AclFromStr(call.s))

AclEntry_from_str == Returns("AclEntry", AclEntryFromStr(call.T, call.s))

CliSocketAddr_from_str == Returns("CliSocketAddr", CliSocketAddrFromStr(call.s))

CliSocketProcesses_from_str == Returns("CliSocketProcesses", CliSocketProcessesFromStr(call.s))

CliSocket_from_str == Returns("CliSocket", CliSocketFromStr(call.s))

ParseNext ==
    \/ OneMoreField
    \/ Acl_from_str
    \/ AclEntry_from_str
    \/ CliSocketAddr_from_str
    \/ CliSocketProcesses_from_str
    \/ CliSocket_from_str

ParseSpec == ParseInit /\ [][ParseNext]_vars

(***************************************************************************)
(* What the properties of the record parsers are stated with.              *)
(***************************************************************************)
\* from_str of the type m has returned.
Parsed(m) == pc = "parsed" /\ call.m = m

\* The text cut at every space.
SpaceFields == Split(call.s, SP)

\* The text after the n-th space of s.
RECURSIVE AfterSpaces(_, _)
AfterSpaces(s, n) ==
    IF n = 0 THEN s ELSE AfterSpaces(SubSeq(s, IndexOf(s, SP) + 1, Len(s)), n - 1)

\* t is a decimal signed 32-bit integer: an optional sign, digits, within the range.
IsI32Text(t) ==
    LET ds == IF t # <<>> /\ t[1] \in {"+", "-"} THEN SubSeq(t, 2, Len(t)) ELSE t
    IN  /\ ds # <<>>
        /\ \A i \in 1..Len(ds) : ds[i] \in DecDigits
        /\ IF t[1] = "-"
           THEN NumLE(StripZeros(ds), <<"2", "1", "4", "7", "4", "8", "3", "6", "4", "8">>)
           ELSE NumLE(StripZeros(ds), <<"2", "1", "4", "7", "4", "8", "3", "6", "4", "7">>)

\* C14: Acl::from_str cuts the line at its first two spaces: a line with fewer than two
\* spaces or with an id that is no i32 gives ParseFailure, and an Acl that is returned has
\* the text before the first space as its id and all the text after the second space, with
\* its spaces, as its description.
C14_AclFieldsAtFirstTwoSpaces ==
    Parsed("Acl") =>
        /\ Len(SpaceFields) < 3 => result = Err("ParseFailure")
        /\ ~IsI32Text(SpaceFields[1]) => result = Err("ParseFailure")
        /\ result.kind = "Ok" =>
              /\ result.val.id = I32FromStr(SpaceFields[1]).val
              /\ result.val.description = AfterSpaces(call.s, 2)

\* C15: the reference field "()" gives None, "(name)" of at least 3 characters gives
\* Some(name), and any other field gives ParseFailure.
C15_AclReferenceInParentheses ==
    (Parsed("Acl") /\ Len(SpaceFields) >= 3 /\ IsI32Text(SpaceFields[1])) =>
        LET field == SpaceFields[2]
        IN  IF field = <<"(", ")">>
            THEN result.kind = "Ok" /\ result.val.reference = None
            ELSE IF Len(field) >= 3 /\ field[1] = "(" /\ field[Len(field)] = ")"
                 THEN /\ result.kind = "Ok"
                      /\ result.val.reference = Some(SubSeq(field, 2, Len(field) - 1))
                 ELSE result = Err("ParseFailure")

\* h is a base-16 number of at most 64 bits: hexadecimal digits, at least one, and no
\* more than 16 of them after the leading zeros.
IsHex64Text(h) ==
    /\ h # <<>>
    /\ \A i \in 1..Len(h) : h[i] \in HexDigits
    /\ Len(StripZeros(h)) <= 16

\* The number a base-16 text denotes, as a numeral in lower case.
Hex64Value(h) == [i \in 1..Len(StripZeros(h)) |-> LowerHex(StripZeros(h)[i])]

\* C16: AclEntry::from_str cuts the line at its first space; it succeeds exactly when the
\* first field is "0x" and a base-16 number of at most 64 bits and the rest of the line is
\* accepted by the parser of the value, and gives that number and that value; everything
\* else gives ParseFailure.
C16_AclEntryHexIdAndValue ==
    Parsed("AclEntry") =>
        LET first == SubSeq(call.s, 1, IndexOf(call.s, SP) - 1)
            rest  == AfterSpaces(call.s, 1)
            hex   == SubSeq(first, 3, Len(first))
        IN  IF /\ Contains(call.s, SP)
               /\ HasPrefix(first, <<"0", "x">>)
               /\ IsHex64Text(hex)
               /\ ValueFromStr(call.T, rest).kind = "Ok"
            THEN result = Ok([id |-> Hex64Value(hex), value |-> ValueFromStr(call.T, rest).val])
            ELSE result = Err("ParseFailure")

\* The valid socket addresses among the texts tried, and the address each denotes.
TextV4 == <<"1", ".", "2", ".", "3", ".", "4", ":", "8", "0">>

TextV6 == <<"[", ":", ":", "1", "]", ":", "8", "0">>

AddrV4 == [ip |-> <<(<<"1">>), (<<"2">>), (<<"3">>), (<<"4">>)>>, port |-> <<"8", "0">>]

AddrV6 == [ip |-> <<":", ":", "1">>, port |-> <<"8", "0">>]

\* C17: CliSocketAddr::from_str cuts the text at its first '@' and looks at the scheme:
\* unix, sockpair and abns keep the rest as it is, ipv4 and ipv6 want the rest to be a valid
\* socket address of their family, "unknown" without '@' is Unknown, and everything else
\* is ParseFailure.
C17_CliSocketAddrByScheme ==
    Parsed("CliSocketAddr") =>
        LET scheme == SubSeq(call.s, 1, IndexOf(call.s, "@") - 1)
            rest   == SubSeq(call.s, IndexOf(call.s, "@") + 1, Len(call.s))
        IN  IF ~Contains(call.s, "@")
            THEN IF call.s = <<"u", "n", "k", "n", "o", "w", "n">>
                 THEN result = Ok([tag |-> "Unknown"])
                 ELSE result = Err("ParseFailure")
            ELSE CASE scheme = <<"u", "n", "i", "x">> -> result = Ok([tag |-> "Unix", val |-> rest])
                   [] scheme = <<"s", "o", "c", "k", "p", "a", "i", "r">> ->
                        result = Ok([tag |-> "SocketPair", val |-> rest])
                   [] scheme = <<"a", "b", "n", "s">> ->
                        result = Ok([tag |-> "AbstractSocket", val |-> rest])
                   [] scheme = <<"i", "p", "v", "4">> ->
                        IF rest = TextV4
                        THEN result = Ok([tag |-> "Ip", val |-> AddrV4])
                        ELSE result = Err("ParseFailure")
                   [] scheme = <<"i", "p", "v", "6">> ->
                        IF rest = TextV6
                        THEN result = Ok([tag |-> "Ip", val |-> AddrV6])
                        ELSE result = Err("ParseFailure")
                   [] OTHER -> result = Err("ParseFailure")

C17_Witness ==
    /\ Parsed("CliSocketAddr")
    /\ result.kind = "Ok"
    /\ result.val.tag = "Unix"
    /\ Contains(result.val.val, "@")

\* t is text the parser of u32 takes: digits, at least one, after an optional '+', and a
\* value of at most 4294967295.
IsU32Text(t) ==
    LET ds == IF t # <<>> /\ t[1] = "+" THEN SubSeq(t, 2, Len(t)) ELSE t
    IN  /\ ds # <<>>
        /\ \A i \in 1..Len(ds) : ds[i] \in DecDigits
        /\ NumLE(StripZeros(ds), <<"4", "2", "9", "4", "9", "6", "7", "2", "9", "5">>)

\* The number such a text denotes, as a numeral.
U32Value(t) == StripZeros(IF t[1] = "+" THEN SubSeq(t, 2, Len(t)) ELSE t)

\* The text cut at every comma.
CommaTokens == Split(call.s, ",")

\* C18: CliSocketProcesses::from_str gives All exactly for "all"; for any other text it
\* gives the list of the numbers between the commas, in their order and with the
\* duplicates, when every token is a u32, and ParseFailure when one is not, the empty
\* token included.
C18_ProcessesAllOrList ==
    Parsed("CliSocketProcesses") =>
        /\ result = Ok([tag |-> "All"]) <=> call.s = <<"a", "l", "l">>
        /\ call.s # <<"a", "l", "l">> =>
              IF \A i \in 1..Len(CommaTokens) : IsU32Text(CommaTokens[i])
              THEN result = Ok([tag |-> "List",
                                val |-> [i \in 1..Len(CommaTokens) |-> U32Value(CommaTokens[i])]])
              ELSE result = Err("ParseFailure")

C18_Witness ==
    /\ Parsed("CliSocketProcesses")
    /\ result.kind = "Ok"
    /\ result.val.tag = "List"
    /\ Len(result.val.val) = 3
    /\ result.val.val[1] = result.val.val[3]
    /\ result.val.val[1] # result.val.val[2]

\* The three fields of a line are each accepted by the parser of their type.
ThreeFieldsAccepted(fs) ==
    /\ CliSocketAddrFromStr(fs[1]).kind = "Ok"
    /\ LevelFromStr(fs[2]).kind = "Ok"
    /\ CliSocketProcessesFromStr(fs[3]).kind = "Ok"

\* C19: CliSocket::from_str accepts a line exactly when it is three fields between spaces,
\* each accepted by its parser, and then returns what the three parsers gave; fewer fields,
\* or more text after the third, give ParseFailure.
C19_CliSocketExactlyThreeFields ==
    Parsed("CliSocket") =>
        IF Len(SpaceFields) = 3 /\ ThreeFieldsAccepted(SpaceFields)
        THEN result = Ok([address   |-> CliSocketAddrFromStr(SpaceFields[1]).val,
                          level     |-> LevelFromStr(SpaceFields[2]).val,
                          processes |-> CliSocketProcessesFromStr(SpaceFields[3]).val])
        ELSE result = Err("ParseFailure")

C19_Witness ==
    /\ Parsed("CliSocket")
    /\ Len(SpaceFields) = 4
    /\ ThreeFieldsAccepted(SpaceFields)
    /\ result = Err("ParseFailure")

\* C20: level reads one line, takes its newline off and returns Admin, Operator or User
\* exactly when what is left is "admin", "operator" or "user"; every other line and the
\* empty stream give ParseFailure, and no text with a newline in it is accepted.
C20_LevelExactText ==
    (Returned({"level"}) /\ FirstLineRead) =>
        /\ CASE FirstLineText = <<"a", "d", "m", "i", "n">> -> result = Ok("Admin")
              [] FirstLineText = <<"o", "p", "e", "r", "a", "t", "o", "r">> -> result = Ok("Operator")
              [] FirstLineText = <<"u", "s", "e", "r">> -> result = Ok("User")
              [] OTHER -> result = Err("ParseFailure")
        /\ response.data = <<>> => result = Err("ParseFailure")

(***************************************************************************)
(* errors() against errors_backend(BackendId::All, ErrorFlag::All).        *)
(***************************************************************************)
\* What parse_errors returns on the response r: the error of the read, or the count of
\* the line read.
ParseErrorsOn(r) ==
    IF ReadLine(r.data, r.tail).err # "none"
    THEN Err("IoError")
    ELSE parse_errors(ReadLine(r.data, r.tail).line)

\* The call errors_backend(BackendId::All, ErrorFlag::All).
IsBackendAllCall(c) ==
    c.m = "errors_backend" /\ c.backend = [tag |-> "All"] /\ c.error_type = "All"

TextBackendAll == <<"s", "h", "o", "w", " ", "e", "r", "r", "o", "r", "s", " ", "-", "1">>

\* Both calls return, for a response, what parse_errors returns on it.
SameResultAsBackendAll ==
    /\ Returned({"errors"}) => result = ParseErrorsOn(response)
    /\ (Returned({"errors_backend"}) /\ IsBackendAllCall(call)) =>
          result = ParseErrorsOn(response)

EndsWithoutNewline(r) ==
    /\ r.tail = "eof"
    /\ r.data # <<>>
    /\ ~Contains(r.data, LF)
    /\ ~Contains(r.data, EIO)

\* The same line followed by a newline.
WithNewline(r) == [data |-> r.data \o <<LF>>, tail |-> r.tail]

\* C22: parse_errors removes only a trailing newline: a response line that ends at the end
\* of the input without a newline yields the count that the same line followed by a
\* newline yields, so no digit of the count is dropped.
C22_OnlyNewlineRemoved ==
    (Returned({"errors", "errors_backend"}) /\ EndsWithoutNewline(response)) =>
        result = ParseErrorsOn(WithNewline(response))

(***************************************************************************)
(* Termination of the decoders.                                            *)
(***************************************************************************)
\* The step ReadOneLine and ReadNextLine have in common, and no other action has: a
\* decoder that is reading gets the outcome of one more read_line.
ReadReturns == pc = "reading" /\ oddReads' = ~oddReads

\* Each read of the stream returns, so a decoder that is reading takes its next step:
\* read_line in the one-line decoders, Lines::next in the others.
FairSpec == Spec /\ WF_oddReads(ReadReturns)

\* C23: every decoder call terminates: a method that has begun to read the response
\* eventually returns a typed result or an error, for every response stream, also one
\* whose reads fail with an I/O error on every call from some point on.
C23_EveryDecoderReturns == (pc = "reading") ~> (pc = "done")

(***************************************************************************)
(* The newlines of a request.                                              *)
(***************************************************************************)
\* C24: for every command method and every argument value, the bytes written before the
\* response is read hold exactly one newline and it is the last byte written, so no
\* caller-supplied name or value makes one call send more than one command line.
C24_OneNewlineAtTheEnd ==
    HasEvent("end") =>
        /\ written # <<>>
        /\ written[Len(written)] = LF
        /\ \A i \in 1..(Len(written) - 1) : written[i] # LF

====
